---- MODULE Spec2Model ----
(***************************************************************************)
(* Model of the qapi session layer (qapi/src/lib.rs, qmp/src/lib.rs):      *)
(* the line codec Qapi<S>, the QMP session Qmp<S> with its event queue and *)
(* the QGA session Qga<S>.                                                 *)
(*                                                                         *)
(* One session is modelled. The peer is the environment: every blocking    *)
(* read of a line draws what the stream delivers next (a line of one of    *)
(* the wire shapes, end-of-stream, or a transport error). The sessions do  *)
(* blocking reads only, so their behaviour is a function of the sequence   *)
(* of things read and the arrival time of a line is immaterial.            *)
(*                                                                         *)
(* A public operation is a call (the caller's action) followed by the      *)
(* steps of its body, one step per I/O call, sequenced by pc.              *)
(*                                                                         *)
(* Spec is the session; LiveSpec adds the fairness of its blocking read.   *)
(* StreamSpec exercises the duplex adapter Stream<R, W> on its own, with   *)
(* halves that record the calls they receive.                              *)
(***************************************************************************)
EXTENDS Integers, Sequences, FiniteSets, TLC

\* ------------------------------------------------------------------ bounds
\* lines the peer sends in a session
MaxLines == 3
\* anomalous answers of the stream in a session: transport errors on a read or
\* a write, and writes that accept no byte
MaxFaults == 1
\* events() calls between two operations doing I/O
MaxDrains == 2
\* payload identities are 0..MaxVal
MaxVal == 1
\* bytes at the source of the adapter's readable half, and the largest
\* buffer or amount handed to one of its calls
MaxBytes == 2
\* calls made on the adapter
MaxStreamOps == 3

\* ------------------------------------------------------------ wire values
\* Payload identities: a greeting's capabilities value, a success payload,
\* a remote Error (class and description), an event.
Vals == 0..MaxVal

\* One physical line delivered by the peer, by its JSON shape:
\*   greeting   {"QMP": {...}}
\*   return     {"return": v}, v of the awaited command's result type
\*   error      {"error": {"class": .., "desc": ..}}
\*   event      {"event": .., "data": .., "timestamp": ..}
\*   garbage    a line that is not JSON, or JSON of no expected shape or type
\*   truncated  a JSON text cut short before its end
Shapes == {"greeting", "return", "error", "event"}

Line ==
    [shape : Shapes, val : Vals]
    \cup {[shape |-> "garbage", val |-> 0], [shape |-> "truncated", val |-> 0]}

NoLine == [shape |-> "garbage", val |-> 0]

\* What one read_line call can meet on the stream.
Input ==
    [k : {"line"}, line : Line]
    \cup {[k |-> "eof", line |-> NoLine], [k |-> "fault", line |-> NoLine]}

\* Commands. UserCommands are the ones a caller passes to execute.
UserCommands == {"query-version", "stop"}

\* --------------------------------------------------------- result values
\* Every value a call can hand back, as one record shape:
\*   t = "OkOk"   Ok(Ok(val))            io::Result<Result<C::Ok, Error>>
\*   t = "OkErr"  Ok(Err(val))           the remote Error val
\*   t = "Ok"     Ok(val)                io::Result<QMP>, io::Result<()>
\*   t = "Err"    Err(io::Error)         kind is the io::ErrorKind, inner what
\*                                       the error wraps, val the remote Error
\*                                       it carries when inner = "remote"
\*   t = "Some"/"None"                   decode_line's Option; kind is the
\*                                       variant decoded
\*   t = "Panic"                         the call unwound instead of returning
Res(t, kind, inner, val) == [t |-> t, kind |-> kind, inner |-> inner, val |-> val]

IoError(kind, inner) == Res("Err", kind, inner, 0)

VARIABLES
    proto,        \* "qmp": the session is a Qmp<S>; "qga": a Qga<S>
    pc,           \* position of the caller: "idle", or the I/O call a body is at
    op,           \* public operation in progress (or the last one)
    cmd,          \* command being executed
    syncId,       \* Qga::handshake's sync.id
    caps,         \* Qmp::handshake's local caps
    event_queue,  \* Qmp.event_queue
    buffer,       \* Qapi.buffer, the scratch line
    out,          \* written to the writable half, not yet a line at the peer
    flushed,      \* how much of out has been flushed
    closed,       \* the readable half has reported end-of-stream
    ret,          \* what the operation handed back; NoRet while it runs
    drained,      \* what each events() call since the last operation yielded
    nlines, nfaults,   \* counters for the bounds
    \* history of the call in progress (or last finished)
    callRx,       \* lines read by the call
    callTx,       \* what the call wrote
    lastRead,     \* what the call's last read met: "none", "line", "eof", "fault"
    q0,           \* event_queue when the call started
    prev,         \* the operation before this one:
                  \*   "none"         there was none, this is the session's first
                  \*   "unanswered"   it was the session's first, its
                  \*                  write_command succeeded and it read no
                  \*                  Response line
                  \*   "remote error" it was an execute that handed back
                  \*                  Ok(Err(..))
                  \*   "other"        anything else
    lastWrite,    \* how the writable half answered the call's write_command
    decoded,      \* the call's last decode_line: its target type and result
    \* the duplex adapter, exercised on its own
    stream,       \* Stream { r, w }: the two halves it owns
    called        \* the adapter's last call: its number, name, argument, result

vars == <<proto, pc, op, cmd, syncId, caps, event_queue, buffer, out, flushed,
          closed, ret, drained, nlines, nfaults, callRx, callTx, lastRead,
          q0, prev, lastWrite, decoded, stream, called>>

\* ------------------------------------------------------------- line codec
\* BufRead::read_line: appends the line met to the buffer; nothing is
\* appended at end-of-stream or on a transport error.
read_line(buf, inp) == IF inp.k = "line" THEN Append(buf, inp.line) ELSE buf

\* The shapes that deserialize into each target type.
\*   QapiCapabilities: a struct with the one field QMP.
\*   QmpMessage<C>:    untagged; Event, Response<C>, and the Greeting variant
\*                     that Qmp::read_response matches on.
\*   Response<C>:      {"return": ..} or {"error": ..}.
ShapesOf(T) ==
    CASE T = "QapiCapabilities" -> {"greeting"}
      [] T = "QmpMessage" -> {"greeting", "event", "return", "error"}
      [] T = "Response" -> {"return", "error"}

\* serde_json::from_str(&self.buffer).map(Some).map_err(From::from): the
\* buffer must hold exactly one JSON value of type T. serde_json's error
\* becomes an io::Error: UnexpectedEof for a text cut short, InvalidData for a
\* syntax or data error.
from_str(T, buf) ==
    IF Len(buf) # 1 THEN IoError("InvalidData", "serde")
    ELSE IF buf[1].shape = "truncated" THEN IoError("UnexpectedEof", "serde")
    ELSE IF buf[1].shape \in ShapesOf(T) THEN Res("Some", buf[1].shape, "", buf[1].val)
    ELSE IoError("InvalidData", "serde")

\* decode_line without self.buffer.clear(): the line read is appended to
\* what the buffer held.
decode_line_NoClear(T, buf, inp) ==
    LET b == read_line(buf, inp)
    IN  [buffer |-> b,
         res |-> IF inp.k = "fault" THEN IoError("Transport", "io")
                 ELSE IF inp.k = "eof" THEN Res("None", "", "", 0)
                 ELSE from_str(T, b)]

\* Qapi::decode_line: the new buffer and the io::Result<Option<D>>.
decode_line(T, buf, inp) ==
    LET cleared == <<>>
        b == read_line(cleared, inp)
    IN  [buffer |-> b,
         res |-> IF inp.k = "fault" THEN IoError("Transport", "io")
                 ELSE IF inp.k = "eof" THEN Res("None", "", "", 0)
                 ELSE from_str(T, b)]

\* CommandSerializerRef(command).serialize: the command's JSON envelope,
\* {"execute": name, "arguments": arg}.
Envelope(c, arg) == [tok |-> "cmd", name |-> c, arg |-> arg]

Newline == [tok |-> "nl", name |-> "", arg |-> 0]

\* How the writable half answers the calls of one write_command:
\*   ok          every call succeeds and the newline byte is accepted
\*   short       write(&[b'\n']) returns Ok(0): the byte is not accepted
\*   fail_ser    the serializer's write fails
\*   fail_nl     write(&[b'\n']) fails
\*   fail_flush  flush fails
WriteOutcome == {"ok", "short", "fail_ser", "fail_nl", "fail_flush"}

\* The peer's end of the writable half: a flush hands it everything up to the
\* last newline, as whole lines; what follows that newline stays pending.
RECURSIVE Pending(_)
Pending(o) ==
    IF o = <<>> \/ o[Len(o)] = Newline THEN <<>>
    ELSE Append(Pending(SubSeq(o, 1, Len(o) - 1)), o[Len(o)])

\* write_command sending to the stream the second serialization of the
\* command as well, the one it makes for the trace.
write_command_TraceToStream(o, f, c, arg, w) ==
    LET ser == <<Envelope(c, arg), Envelope(c, arg)>>
        nl == IF w = "short" THEN <<>> ELSE <<Newline>>
        failed == [written |-> <<>>, out |-> o, flushed |-> f,
                   res |-> IoError("Transport", "io")]
    IN  IF w = "fail_ser" THEN failed
        ELSE IF w = "fail_nl"
             THEN [failed EXCEPT !.written = ser, !.out = o \o ser]
        ELSE IF w = "fail_flush"
             THEN [failed EXCEPT !.written = ser \o nl, !.out = o \o ser \o nl]
        ELSE [written |-> ser \o nl,
              out |-> Pending(o \o ser \o nl),
              flushed |-> Len(Pending(o \o ser \o nl)),
              res |-> Res("Ok", "", "", 0)]

\* Qapi::write_command on pending output o of which f is flushed: what it
\* writes, the new pending output, how much of that is flushed, and the
\* io::Result<()>.
write_command(o, f, c, arg, w) ==
    LET ser == <<Envelope(c, arg)>>
        nl == IF w = "short" THEN <<>> ELSE <<Newline>>
        failed == [written |-> <<>>, out |-> o, flushed |-> f,
                   res |-> IoError("Transport", "io")]
    IN  IF w = "fail_ser" THEN failed
        ELSE IF w = "fail_nl"
             THEN [failed EXCEPT !.written = ser, !.out = o \o ser]
        ELSE IF w = "fail_flush"
             THEN [failed EXCEPT !.written = ser \o nl, !.out = o \o ser \o nl]
        ELSE [written |-> ser \o nl,
              out |-> Pending(o \o ser \o nl),
              flushed |-> Len(Pending(o \o ser \o nl)),
              res |-> Res("Ok", "", "", 0)]

\* ----------------------------------------------------------- capabilities
\* The "capabilities" array of the greeting with payload v, entry by entry:
\* "oob" is the JSON string "oob", "future" any other JSON string.
\*   0  []          1  ["oob"]          others  ["future", "oob"]
WireCaps(v) ==
    CASE v = 0 -> <<>>
      [] v = 1 -> <<"oob">>
      [] OTHER -> <<"future", "oob">>

\* Deserialize for the untagged enum QmpCapability: the variants are tried in
\* order. The unit variant OutOfBand accepts only a JSON null, its rename is
\* not consulted in an untagged enum; Unknown(Any) accepts every value.
QmpCapability(e) == IF e = "null" THEN "OutOfBand" ELSE "Unknown"

\* QMP.capabilities: Vec<QmpCapability> as deserialized from the array w.
Vec_QmpCapability(w) == [i \in 1..Len(w) |-> QmpCapability(w[i])]

IsOutOfBand(c) == c = "OutOfBand"

\* QapiCapabilities::supports_oob
supports_oob(cs) == \E i \in 1..Len(cs) : IsOutOfBand(cs[i])

\* QapiCapabilities::capabilities: filter_map to QMPCapability::oob.
capabilities(cs) ==
    LET kept == SelectSeq(cs, IsOutOfBand)
    IN  [i \in 1..Len(kept) |-> "oob"]

\* ------------------------------------------------------ qapi_spec helpers
\* Response::result: {"return": v} is Ok(v), {"error": e} is Err(e).
result(m) == IF m.kind = "return" THEN Res("OkOk", "", "", m.val)
             ELSE Res("OkErr", "", "", m.val)

\* From<Error> for io::Error: the remote Error carried inside an io::Error.
ErrorIntoIo(e) == Res("Err", "Other", "remote", e)

\* .and_then(|v| v.map_err(From::from)): flattens Ok(Err(e)) into Err(e.into()).
Flatten(r) == IF r.t = "OkErr" THEN ErrorIntoIo(r.val) ELSE r

\* ------------------------------------------------------------ QMP session
\* read_capabilities with a failed decode taken for an absent greeting.
read_capabilities_Lenient(m) ==
    IF m.t = "Err" \/ m.t = "None" THEN Res("Ok", "", "", 0)
    ELSE Res("Ok", "", "", m.val)

\* Qmp::read_capabilities on decode_line's result m:
\* .map(|v| v.expect("unexpected eof").QMP). An io::Error passes through,
\* None panics, Some(greeting) yields its QMP value.
read_capabilities(m) ==
    IF m.t = "Err" THEN m
    ELSE IF m.t = "None" THEN Res("Panic", "", "unexpected eof", 0)
    ELSE Res("Ok", "", "", m.val)

\* read_response with the Event arm not pushing.
Qmp_read_response_DropsEvent(m, q) ==
    IF m.t = "Err" THEN [done |-> TRUE, res |-> m, queue |-> q]
    ELSE IF m.t = "None" THEN
        [done |-> TRUE, queue |-> q,
         res |-> IoError("UnexpectedEof", "expected command response")]
    ELSE IF m.kind = "greeting" THEN
        [done |-> TRUE, queue |-> q,
         res |-> IoError("InvalidData", "unexpected greeting")]
    ELSE IF m.kind \in {"return", "error"} THEN
        [done |-> TRUE, res |-> result(m), queue |-> q]
    ELSE [done |-> FALSE, res |-> m, queue |-> q]

\* read_response with the Response arm also resetting the queue.
Qmp_read_response_ResetsQueue(m, q) ==
    IF m.t = "Err" THEN [done |-> TRUE, res |-> m, queue |-> q]
    ELSE IF m.t = "None" THEN
        [done |-> TRUE, queue |-> q,
         res |-> IoError("UnexpectedEof", "expected command response")]
    ELSE IF m.kind = "greeting" THEN
        [done |-> TRUE, queue |-> q,
         res |-> IoError("InvalidData", "unexpected greeting")]
    ELSE IF m.kind \in {"return", "error"} THEN
        [done |-> TRUE, res |-> result(m), queue |-> <<>>]
    ELSE [done |-> FALSE, res |-> m, queue |-> Append(q, m.val)]

\* read_response with end-of-stream taken for an empty success.
Qmp_read_response_EofIsOk(m, q) ==
    IF m.t = "Err" THEN [done |-> TRUE, res |-> m, queue |-> q]
    ELSE IF m.t = "None" THEN
        [done |-> TRUE, queue |-> q, res |-> Res("OkOk", "", "", 0)]
    ELSE IF m.kind = "greeting" THEN
        [done |-> TRUE, queue |-> q,
         res |-> IoError("InvalidData", "unexpected greeting")]
    ELSE IF m.kind \in {"return", "error"} THEN
        [done |-> TRUE, res |-> result(m), queue |-> q]
    ELSE [done |-> FALSE, res |-> m, queue |-> Append(q, m.val)]

\* read_response with a remote Error raised as an io::Error.
Qmp_read_response_ErrorIsFatal(m, q) ==
    IF m.t = "Err" THEN [done |-> TRUE, res |-> m, queue |-> q]
    ELSE IF m.t = "None" THEN
        [done |-> TRUE, queue |-> q,
         res |-> IoError("UnexpectedEof", "expected command response")]
    ELSE IF m.kind = "greeting" THEN
        [done |-> TRUE, queue |-> q,
         res |-> IoError("InvalidData", "unexpected greeting")]
    ELSE IF m.kind \in {"return", "error"} THEN
        [done |-> TRUE, res |-> Flatten(result(m)), queue |-> q]
    ELSE [done |-> FALSE, res |-> m, queue |-> Append(q, m.val)]

\* read_response whose end-of-stream arm goes round the loop again.
Qmp_read_response_SpinsOnEof(m, q) ==
    IF m.t = "Err" THEN [done |-> TRUE, res |-> m, queue |-> q]
    ELSE IF m.t = "None" THEN [done |-> FALSE, res |-> m, queue |-> q]
    ELSE IF m.kind = "greeting" THEN
        [done |-> TRUE, queue |-> q,
         res |-> IoError("InvalidData", "unexpected greeting")]
    ELSE IF m.kind \in {"return", "error"} THEN
        [done |-> TRUE, res |-> result(m), queue |-> q]
    ELSE [done |-> FALSE, res |-> m, queue |-> Append(q, m.val)]

\* read_response with a stray greeting passed over.
Qmp_read_response_SkipsGreeting(m, q) ==
    IF m.t = "Err" THEN [done |-> TRUE, res |-> m, queue |-> q]
    ELSE IF m.t = "None" THEN
        [done |-> TRUE, queue |-> q,
         res |-> IoError("UnexpectedEof", "expected command response")]
    ELSE IF m.kind = "greeting" THEN [done |-> FALSE, res |-> m, queue |-> q]
    ELSE IF m.kind \in {"return", "error"} THEN
        [done |-> TRUE, res |-> result(m), queue |-> q]
    ELSE [done |-> FALSE, res |-> m, queue |-> Append(q, m.val)]

\* read_response with the Event arm inserting at the front of the queue.
Qmp_read_response_Prepends(m, q) ==
    IF m.t = "Err" THEN [done |-> TRUE, res |-> m, queue |-> q]
    ELSE IF m.t = "None" THEN
        [done |-> TRUE, queue |-> q,
         res |-> IoError("UnexpectedEof", "expected command response")]
    ELSE IF m.kind = "greeting" THEN
        [done |-> TRUE, queue |-> q,
         res |-> IoError("InvalidData", "unexpected greeting")]
    ELSE IF m.kind \in {"return", "error"} THEN
        [done |-> TRUE, res |-> result(m), queue |-> q]
    ELSE [done |-> FALSE, res |-> m, queue |-> <<m.val>> \o q]

\* One iteration of Qmp::read_response's loop on decode_line's result m and
\* the event queue q: whether the loop returns, with what, and the new queue.
Qmp_read_response(m, q) ==
    IF m.t = "Err" THEN [done |-> TRUE, res |-> m, queue |-> q]
    ELSE IF m.t = "None" THEN
        [done |-> TRUE, queue |-> q,
         res |-> IoError("UnexpectedEof", "expected command response")]
    ELSE IF m.kind = "greeting" THEN
        [done |-> TRUE, queue |-> q,
         res |-> IoError("InvalidData", "unexpected greeting")]
    ELSE IF m.kind \in {"return", "error"} THEN
        [done |-> TRUE, res |-> result(m), queue |-> q]
    ELSE [done |-> FALSE, res |-> m, queue |-> Append(q, m.val)]

\* handshake handing back the acknowledgement's payload: .map(|v| v)
Qmp_handshake_ReturnsAck(r, c) ==
    LET v == Flatten(r)
    IN  IF v.t = "OkOk" THEN Res("Ok", "", "", v.val) ELSE v

\* Qmp::handshake once its execute has returned r:
\* .and_then(|v| v.map_err(From::from)).map(|_| caps)
Qmp_handshake(r, c) ==
    LET v == Flatten(r)
    IN  IF v.t = "OkOk" THEN Res("Ok", "", "", c) ELSE v

\* Qmp::nop once its execute has returned r:
\* .and_then(|v| v.map_err(From::from)).map(drop)
Qmp_nop(r) ==
    LET v == Flatten(r)
    IN  IF v.t = "OkOk" THEN Res("Ok", "", "", 0) ELSE v

\* events yielding a copy and leaving the queue as it is.
events_KeepsQueue(q) == [yielded |-> q, queue |-> q]

\* Qmp::events: what the drain yields and the queue it leaves.
events(q) == [yielded |-> q, queue |-> <<>>]

\* ------------------------------------------------------------ QGA session
\* One iteration of Qga::read_response's loop: every arm returns.
Qga_read_response(m, q) ==
    IF m.t = "Err" THEN [done |-> TRUE, res |-> m, queue |-> q]
    ELSE IF m.t = "None" THEN
        [done |-> TRUE, queue |-> q,
         res |-> IoError("UnexpectedEof", "expected command response")]
    ELSE [done |-> TRUE, res |-> result(m), queue |-> q]

\* handshake without the echo verification.
Qga_handshake_NoVerify(r, id) ==
    IF r.t = "Err" THEN r
    ELSE IF r.t = "OkOk" THEN Res("Ok", "", "", 0)
    ELSE ErrorIntoIo(r.val)

\* handshake with every answer but the echo reported as the same failure.
Qga_handshake_OneFailure(r, id) ==
    IF r.t = "Err" THEN r
    ELSE IF r.t = "OkOk" /\ r.val = id THEN Res("Ok", "", "", 0)
    ELSE IoError("InvalidData", "guest-sync handshake failed")

\* Qga::handshake once its execute has returned r, for the sync.id sent.
Qga_handshake(r, id) ==
    IF r.t = "Err" THEN r
    ELSE IF r.t = "OkOk" /\ r.val = id THEN Res("Ok", "", "", 0)
    ELSE IF r.t = "OkOk" THEN IoError("InvalidData", "guest-sync handshake failed")
    ELSE ErrorIntoIo(r.val)

\* What the public operation o hands back when its execute (or its
\* read_response) has returned r.
Finish(o, r) ==
    CASE o = "handshake" /\ proto = "qmp" -> Qmp_handshake(r, caps)
      [] o = "handshake" /\ proto = "qga" -> Qga_handshake(r, syncId)
      [] o = "nop" -> Qmp_nop(r)
      [] OTHER -> r

\* ----------------------------------------------------------------- state
NoRet == Res("none", "", "", 0)

NoDecode == [T |-> "", res |-> NoRet]

\* ----------------------------------------------------------- Stream<R, W>
\* The halves are any R: BufRead and W: Write. Each is modelled as a buffered
\* byte pipe that counts the calls it receives and keeps the last one:
\*   R  src bytes still at the source, buf bytes filled and not yet consumed
\*   W  pend bytes written and not yet flushed, sunk bytes flushed
NoCall == [call |-> "none", arg |-> 0, res |-> NoRet]

Min(a, b) == IF a < b THEN a ELSE b

Received(h, call, arg, res) ==
    [h EXCEPT !.calls = h.calls + 1,
              !.last = [call |-> call, arg |-> arg, res |-> res]]

\* R::read into a buffer of n bytes: from what is filled, else from the source.
R_read(h, n, ok) ==
    IF ~ok THEN Received(h, "read", n, IoError("Transport", "io"))
    ELSE IF h.buf > 0
         THEN Received([h EXCEPT !.buf = h.buf - Min(n, h.buf)], "read", n,
                       Res("Ok", "", "", Min(n, h.buf)))
    ELSE Received([h EXCEPT !.src = h.src - Min(n, h.src)], "read", n,
                  Res("Ok", "", "", Min(n, h.src)))

\* R::fill_buf: fills from the source when nothing is filled; Ok(the slice).
R_fill_buf(h, ok) ==
    IF ~ok THEN Received(h, "fill_buf", 0, IoError("Transport", "io"))
    ELSE IF h.buf > 0 THEN Received(h, "fill_buf", 0, Res("Ok", "", "", h.buf))
    ELSE Received([h EXCEPT !.buf = h.src, !.src = 0], "fill_buf", 0,
                  Res("Ok", "", "", h.src))

\* R::consume(amt), which returns ().
R_consume(h, amt) ==
    Received([h EXCEPT !.buf = h.buf - Min(amt, h.buf)], "consume", amt,
             Res("Ok", "", "", 0))

\* W::write of n bytes of which the half accepts acc, or fails on acc = -1.
W_write(h, n, acc) ==
    IF acc < 0 THEN Received(h, "write", n, IoError("Transport", "io"))
    ELSE Received([h EXCEPT !.pend = h.pend + acc], "write", n,
                  Res("Ok", "", "", acc))

\* W::flush.
W_flush(h, ok) ==
    IF ~ok THEN Received(h, "flush", 0, IoError("Transport", "io"))
    ELSE Received([h EXCEPT !.sunk = h.sunk + h.pend, !.pend = 0], "flush", 0,
                  Res("Ok", "", "", 0))

\* Stream::new(r, w)
Stream_new(r0, w0) == [r |-> r0, w |-> w0]

\* The adapter's methods: the new Stream and the value handed back.
Stream_read(st, n, ok) ==
    LET h == R_read(st.r, n, ok)
    IN  [stream |-> [st EXCEPT !.r = h], res |-> h.last.res]

Stream_fill_buf(st, ok) ==
    LET h == R_fill_buf(st.r, ok)
    IN  [stream |-> [st EXCEPT !.r = h], res |-> h.last.res]

Stream_consume(st, amt) ==
    LET h == R_consume(st.r, amt)
    IN  [stream |-> [st EXCEPT !.r = h], res |-> h.last.res]

Stream_write(st, n, acc) ==
    LET h == W_write(st.w, n, acc)
    IN  [stream |-> [st EXCEPT !.w = h], res |-> h.last.res]

\* flush that answers Ok(()) itself and never reaches the writable half.
Stream_flush_Swallows(st, ok) ==
    [stream |-> st, res |-> Res("Ok", "", "", 0)]

Stream_flush(st, ok) ==
    LET h == W_flush(st.w, ok)
    IN  [stream |-> [st EXCEPT !.w = h], res |-> h.last.res]

Init ==
    /\ proto \in {"qmp", "qga"}
    /\ pc = "idle"
    /\ op = "none"
    /\ cmd = ""
    /\ syncId = 0
    /\ caps = 0
    /\ event_queue = <<>>
    /\ buffer = <<>>
    /\ out = <<>>
    /\ flushed = 0
    /\ closed = FALSE
    /\ ret = NoRet
    /\ drained = <<>>
    /\ nlines = 0 /\ nfaults = 0
    /\ callRx = <<>>
    /\ callTx = <<>>
    /\ lastRead = "none"
    /\ q0 = <<>>
    /\ prev = "none"
    /\ lastWrite = "none"
    /\ decoded = NoDecode
    /\ stream = Stream_new([src |-> MaxBytes, buf |-> 0, calls |-> 0, last |-> NoCall],
                           [pend |-> 0, sunk |-> 0, calls |-> 0, last |-> NoCall])
    /\ called = [n |-> 0, call |-> "none", arg |-> 0, res |-> NoRet]

\* The caller starts public operation o, which begins at position p.
Start(o, p, c, id) ==
    /\ pc = "idle"
    /\ op' = o
    /\ pc' = p
    /\ cmd' = c
    /\ syncId' = id
    /\ caps' = 0
    /\ callRx' = <<>>
    /\ callTx' = <<>>
    /\ lastRead' = "none"
    /\ q0' = event_queue
    /\ ret' = NoRet
    /\ prev' = IF op = "none" THEN "none"
               ELSE IF /\ prev = "none"
                       /\ lastWrite = "ok"
                       /\ \A i \in 1..Len(callRx) : callRx[i].shape \notin {"return", "error"}
                    THEN "unanswered"
               ELSE IF op = "execute" /\ ret.t = "OkErr" THEN "remote error"
               ELSE "other"
    /\ drained' = <<>>
    /\ lastWrite' = "none"
    /\ decoded' = NoDecode
    /\ UNCHANGED <<proto, event_queue, buffer, out, flushed, closed, nlines,
                   nfaults, stream, called>>

\* The operation in progress hands r back to the caller.
Return(r) ==
    /\ pc' = IF r.t = "Panic" THEN "panicked" ELSE "idle"
    /\ ret' = r

\* What the stream can deliver to a read now: once it has reported
\* end-of-stream it delivers no further line.
Readable ==
    {inp \in Input :
        /\ inp.k = "line" => ~closed /\ nlines < MaxLines
        /\ inp.k = "fault" => nfaults < MaxFaults}

\* The stream's side of one read_line call that met inp.
Consume(inp) ==
    /\ closed' = (closed \/ inp.k = "eof")
    /\ nlines' = IF inp.k = "line" THEN nlines + 1 ELSE nlines
    /\ nfaults' = IF inp.k = "fault" THEN nfaults + 1 ELSE nfaults
    /\ callRx' = IF inp.k = "line" THEN Append(callRx, inp.line) ELSE callRx
    /\ lastRead' = inp.k

\* --------------------------------------------------------------- actions
\* Qmp::handshake starts by reading the capabilities; Qga::handshake builds
\* guest_sync with its id and executes it.
\* Qmp::handshake with its two steps swapped: the capabilities command is
\* written before anything is read.
Call_handshake_WritesFirst ==
    \/ /\ proto = "qmp"
       /\ Start("handshake", "write_command", "qmp_capabilities", 0)
    \/ /\ proto = "qga"
       /\ \E id \in Vals : Start("handshake", "write_command", "guest-sync", id)

Call_handshake ==
    \/ /\ proto = "qmp"
       /\ Start("handshake", "read_capabilities", "", 0)
    \/ /\ proto = "qga"
       /\ \E id \in Vals : Start("handshake", "write_command", "guest-sync", id)

Call_execute ==
    /\ proto \in {"qmp", "qga"}
    /\ \E c \in UserCommands : Start("execute", "write_command", c, 0)

Call_nop ==
    /\ proto = "qmp"
    /\ Start("nop", "write_command", "query-version", 0)

Call_read_capabilities ==
    /\ proto = "qmp"
    /\ Start("read_capabilities", "read_capabilities", "", 0)

Call_read_response ==
    /\ proto \in {"qmp", "qga"}
    /\ Start("read_response", "read_response", "", 0)

Call_write_command ==
    /\ proto \in {"qmp", "qga"}
    /\ \E c \in UserCommands : Start("write_command", "write_command", c, 0)

\* Qmp::events, a call that does no I/O.
Call_events ==
    /\ proto = "qmp"
    /\ pc = "idle"
    /\ Len(drained) < MaxDrains
    /\ LET e == events(event_queue)
       IN  /\ drained' = Append(drained, e.yielded)
           /\ event_queue' = e.queue
    /\ UNCHANGED <<proto, pc, op, cmd, syncId, caps, buffer, out, flushed,
                   closed, ret, nlines, nfaults, callRx, callTx, lastRead, q0,
                   prev, lastWrite, decoded, stream, called>>

\* Qmp::read_capabilities reads one line. Inside handshake a greeting is kept
\* in caps and execute(&qmp_capabilities) follows; anything else ends the call.
Step_read_capabilities ==
    /\ pc = "read_capabilities"
    /\ \E inp \in Readable :
        LET d == decode_line("QapiCapabilities", buffer, inp)
            r == read_capabilities(d.res)
        IN  /\ Consume(inp)
            /\ buffer' = d.buffer
            /\ decoded' = [T |-> "QapiCapabilities", res |-> d.res]
            /\ IF op = "handshake" /\ r.t = "Ok"
               THEN /\ caps' = r.val
                    /\ cmd' = "qmp_capabilities"
                    /\ pc' = "write_command"
                    /\ UNCHANGED ret
               ELSE /\ Return(r)
                    /\ UNCHANGED <<caps, cmd>>
    /\ UNCHANGED <<proto, op, syncId, event_queue, out, flushed, drained,
                   callTx, q0, prev, lastWrite, stream, called>>

\* execute without the `?` after write_command: it goes on to read_response
\* whatever the write returned.
Step_write_command_ReadsAnyway ==
    /\ pc = "write_command"
    /\ \E w \in WriteOutcome :
        LET x == write_command(out, flushed, cmd, syncId, w)
        IN  /\ w # "ok" => nfaults < MaxFaults
            /\ nfaults' = IF w # "ok" THEN nfaults + 1 ELSE nfaults
            /\ out' = x.out
            /\ callTx' = callTx \o x.written
            /\ flushed' = x.flushed
            /\ lastWrite' = w
            /\ IF op = "write_command" THEN Return(x.res)
               ELSE /\ pc' = "read_response"
                    /\ UNCHANGED ret
    /\ UNCHANGED <<proto, op, cmd, syncId, caps, event_queue, buffer, closed,
                   drained, nlines, callRx, lastRead, q0, prev, decoded,
                   stream, called>>

\* write_command, as the first half of execute or on its own. A failed write
\* is returned by execute's `?` before anything is read.
Step_write_command ==
    /\ pc = "write_command"
    /\ \E w \in WriteOutcome :
        LET x == write_command(out, flushed, cmd, syncId, w)
        IN  /\ w # "ok" => nfaults < MaxFaults
            /\ nfaults' = IF w # "ok" THEN nfaults + 1 ELSE nfaults
            /\ out' = x.out
            /\ callTx' = callTx \o x.written
            /\ flushed' = x.flushed
            /\ lastWrite' = w
            /\ IF op = "write_command" THEN Return(x.res)
               ELSE IF x.res.t = "Err" THEN Return(Finish(op, x.res))
               ELSE /\ pc' = "read_response"
                    /\ UNCHANGED ret
    /\ UNCHANGED <<proto, op, cmd, syncId, caps, event_queue, buffer, closed,
                   drained, nlines, callRx, lastRead, q0, prev, decoded,
                   stream, called>>

\* One iteration of read_response's loop: a blocking decode_line and the
\* match on what it decoded.
Step_read_response ==
    /\ pc = "read_response"
    /\ \E inp \in Readable :
        LET T == IF proto = "qmp" THEN "QmpMessage" ELSE "Response"
            d == decode_line(T, buffer, inp)
            x == IF proto = "qmp"
                 THEN Qmp_read_response(d.res, event_queue)
                 ELSE Qga_read_response(d.res, event_queue)
        IN  /\ Consume(inp)
            /\ buffer' = d.buffer
            /\ event_queue' = x.queue
            /\ decoded' = [T |-> T, res |-> d.res]
            /\ IF x.done THEN Return(Finish(op, x.res))
               ELSE UNCHANGED <<pc, ret>>
    /\ UNCHANGED <<proto, op, cmd, syncId, caps, out, flushed, drained,
                   callTx, q0, prev, lastWrite, stream, called>>

Next ==
    \/ Call_handshake
    \/ Call_execute
    \/ Call_nop
    \/ Call_events
    \/ Call_read_capabilities
    \/ Call_read_response
    \/ Call_write_command
    \/ Step_read_capabilities
    \/ Step_write_command
    \/ Step_read_response

Spec == Init /\ [][Next]_vars

\* The blocking read inside read_response returns whenever the peer sends a
\* line, closes the stream or the transport fails, and the peer sends at most
\* MaxLines lines: it does not send Event lines for ever.
LiveSpec == Spec /\ WF_vars(Step_read_response)

\* ------------------------------------------------ the adapter on its own
qapi == <<proto, pc, op, cmd, syncId, caps, event_queue, buffer, out, flushed,
          closed, ret, drained, nlines, nfaults, callRx, callTx, lastRead,
          q0, prev, lastWrite, decoded>>

\* A caller of the adapter makes call c with argument a and gets x.
Called(c, a, x) ==
    /\ stream' = x.stream
    /\ called' = [n |-> called.n + 1, call |-> c, arg |-> a, res |-> x.res]
    /\ UNCHANGED qapi

Use_read ==
    /\ called.n < MaxStreamOps
    /\ \E n \in 1..MaxBytes, ok \in BOOLEAN :
          Called("read", n, Stream_read(stream, n, ok))

Use_fill_buf ==
    /\ called.n < MaxStreamOps
    /\ \E ok \in BOOLEAN : Called("fill_buf", 0, Stream_fill_buf(stream, ok))

Use_consume ==
    /\ called.n < MaxStreamOps
    /\ \E amt \in 0..MaxBytes : Called("consume", amt, Stream_consume(stream, amt))

Use_write ==
    /\ called.n < MaxStreamOps
    /\ \E n \in 1..MaxBytes : \E acc \in -1..n :
          Called("write", n, Stream_write(stream, n, acc))

Use_flush ==
    /\ called.n < MaxStreamOps
    /\ \E ok \in BOOLEAN : Called("flush", 0, Stream_flush(stream, ok))

StreamNext ==
    \/ Use_read
    \/ Use_fill_buf
    \/ Use_consume
    \/ Use_write
    \/ Use_flush

StreamSpec == Init /\ [][StreamNext]_vars

\* ============================================================ properties
Last(sq) == sq[Len(sq)]

Front(sq) == SubSeq(sq, 1, Len(sq) - 1)

IsEvent(l) == l.shape = "event"

IsResponse(l) == l.shape \in {"return", "error"}

\* The events among the lines sq, in order of arrival.
EventsOf(sq) ==
    LET ev == SelectSeq(sq, IsEvent)
    IN  [i \in 1..Len(ev) |-> ev[i].val]

IsCmd(tk) == tk.tok = "cmd"

\* The command envelopes among the tokens sq.
CmdsOf(sq) == SelectSeq(sq, IsCmd)

\* The result a Response line carries.
Carried(l) ==
    IF l.shape = "return" THEN Res("OkOk", "", "", l.val) ELSE Res("OkErr", "", "", l.val)

\* The lines read are zero or more Events followed by one Response.
EventsThenResponse(sq) ==
    /\ sq # <<>>
    /\ IsResponse(Last(sq))
    /\ \A i \in 1..(Len(sq) - 1) : IsEvent(sq[i])

Done == pc = "idle" /\ ret.t # "none"

\* The event queue as the operation left it: the queue itself until the caller
\* drains it, and what the first drain yielded from then on.
QueueLeft == IF drained = <<>> THEN event_queue ELSE drained[1]

\* C1: a QMP execute that reads zero or more Event lines and then a Response
\* line has written its command, has queued each of those Events, and has
\* returned the result that Response carries; every line an execute reads
\* before its last is an Event, so no Event is returned as the result and
\* nothing is read after the Response.
C1_ExecuteDemux ==
    (proto = "qmp" /\ op = "execute") =>
        /\ \A i \in 1..(Len(callRx) - 1) : IsEvent(callRx[i])
        /\ ret.t \in {"OkOk", "OkErr"} => EventsThenResponse(callRx)
        /\ EventsThenResponse(callRx) =>
            /\ Done
            /\ ret = Carried(Last(callRx))
            /\ CmdsOf(callTx) = <<Envelope(cmd, 0)>>
            /\ QueueLeft = q0 \o EventsOf(Front(callRx))

C1_Witness ==
    /\ proto = "qmp" /\ op = "execute" /\ Done
    /\ Len(callRx) = 3
    /\ callRx[1] = [shape |-> "event", val |-> 1]
    /\ callRx[2] = [shape |-> "event", val |-> 0]
    /\ callRx[3] = [shape |-> "return", val |-> 1]
    /\ event_queue = <<1, 0>>

\* C2 as stated: after a QMP execute returns what a Response carries,
\* events() yields exactly the events received during that execute, and a
\* second events() yields nothing.
C2_AsStated ==
    (proto = "qmp" /\ op = "execute" /\ Done /\ ret.t \in {"OkOk", "OkErr"}) =>
        /\ Len(drained) >= 1 => drained[1] = EventsOf(callRx)
        /\ Len(drained) >= 2 => drained[2] = <<>>

\* C2 amended: after a QMP execute returns, events() yields the events that
\* were already queued when execute was called followed by exactly the events
\* received during that execute, in arrival order; a second events() right
\* after it yields nothing.
C2_DrainAfterExecute ==
    (proto = "qmp" /\ op = "execute" /\ Done) =>
        /\ Len(drained) >= 1 => drained[1] = q0 \o EventsOf(callRx)
        /\ Len(drained) >= 2 => drained[2] = <<>>

C2_Witness ==
    /\ proto = "qmp" /\ op = "execute" /\ Done
    /\ EventsOf(callRx) = <<1, 0>>
    /\ drained = << <<1, 0>>, <<>> >>

\* C3: a QMP execute whose only line read is a success Response of the
\* command's result type returns that payload and leaves the event queue as it
\* was when execute was called.
C3_ExecuteNoEvents ==
    (proto = "qmp" /\ op = "execute" /\ Len(callRx) = 1 /\ callRx[1].shape = "return") =>
        /\ Done
        /\ ret = Res("OkOk", "", "", callRx[1].val)
        /\ QueueLeft = q0

C3_Witness ==
    /\ proto = "qmp" /\ op = "execute" /\ Done
    /\ callRx = <<[shape |-> "return", val |-> 1]>>
    /\ q0 = <<0>>
    /\ event_queue = <<0>>
    /\ ret.val = 1

\* C4: in both sessions, an execute whose wait for the response met
\* end-of-stream fails with an unexpected-EOF io::Error; it hands back no
\* decoded value.
C4_EofWhileAwaiting ==
    (op = "execute" /\ lastRead = "eof") =>
        /\ Done
        /\ ret.t = "Err"
        /\ ret.kind = "UnexpectedEof"
        /\ CmdsOf(callTx) = <<Envelope(cmd, 0)>>

C4_Witness ==
    /\ proto = "qmp" /\ op = "execute" /\ lastRead = "eof"
    /\ callRx = <<[shape |-> "event", val |-> 1]>>
    /\ ret = IoError("UnexpectedEof", "expected command response")

\* The lines read are a greeting, then zero or more Events, then a success.
GreetingThenAck(sq) ==
    /\ Len(sq) >= 2
    /\ sq[1].shape = "greeting"
    /\ Last(sq).shape = "return"
    /\ \A i \in 2..(Len(sq) - 1) : IsEvent(sq[i])

\* C5: a QMP handshake that reads a greeting and then the success answering
\* qmp_capabilities returns the greeting's capabilities value; it has written
\* exactly one command, qmp_capabilities, and a handshake writes nothing
\* before it has read the greeting.
C5_HandshakeReturnsCaps ==
    (proto = "qmp" /\ op = "handshake") =>
        /\ callTx # <<>> => (callRx # <<>> /\ callRx[1].shape = "greeting")
        /\ pc = "read_capabilities" => callTx = <<>>
        /\ GreetingThenAck(callRx) =>
            /\ Done
            /\ ret = Res("Ok", "", "", callRx[1].val)
            /\ CmdsOf(callTx) = <<Envelope("qmp_capabilities", 0)>>

C5_Witness ==
    /\ proto = "qmp" /\ op = "handshake" /\ Done
    /\ callRx = <<[shape |-> "greeting", val |-> 1], [shape |-> "event", val |-> 0],
                  [shape |-> "return", val |-> 0]>>
    /\ ret = Res("Ok", "", "", 1)

\* C6: a QMP handshake whose first line is a Response fails with an
\* invalid-data io::Error; it reads nothing more, writes no command and hands
\* back no capabilities.
C6_HandshakeResponseFirst ==
    (proto = "qmp" /\ op = "handshake" /\ callRx # <<>> /\ IsResponse(callRx[1])) =>
        /\ Done
        /\ ret.t = "Err"
        /\ ret.kind = "InvalidData"
        /\ Len(callRx) = 1
        /\ callTx = <<>>

C6_Witness ==
    /\ proto = "qmp" /\ op = "handshake" /\ Done
    /\ callRx = <<[shape |-> "return", val |-> 1]>>
    /\ ret.kind = "InvalidData"

\* C7: a QMP handshake that is over without having read a greeting and then
\* the success answering qmp_capabilities (an I/O error, end-of-stream before
\* the greeting or before the answer, a first line that is no greeting, a
\* remote Error answering qmp_capabilities) is over by returning an io::Error
\* to the caller.
C7_HandshakeFailureReturnsErr ==
    (proto = "qmp" /\ op = "handshake" /\ pc \in {"idle", "panicked"}
        /\ ~GreetingThenAck(callRx)) =>
        ret.t = "Err"

\* C8: a QGA handshake writes one command, guest-sync carrying its id, and
\* reads at most one line; a success whose value differs from the id fails it
\* with an invalid-data io::Error, and it succeeds only when the one line read
\* is a success carrying the id.
C8_GuestSyncEcho ==
    (proto = "qga" /\ op = "handshake") =>
        /\ Len(callRx) <= 1
        /\ pc # "write_command" /\ ret.inner # "io" =>
               CmdsOf(callTx) = <<Envelope("guest-sync", syncId)>>
        /\ Len(CmdsOf(callTx)) <= 1
        /\ (callRx # <<>> /\ callRx[1].shape = "return" /\ callRx[1].val # syncId) =>
            /\ Done
            /\ ret = IoError("InvalidData", "guest-sync handshake failed")
        /\ (Done /\ ret.t = "Ok") =>
               callRx = <<[shape |-> "return", val |-> syncId]>>
        /\ (callRx = <<[shape |-> "return", val |-> syncId]>>) =>
               (Done /\ ret.t = "Ok")

C8_Witness ==
    /\ proto = "qga" /\ op = "handshake" /\ Done
    /\ syncId = 1
    /\ callRx = <<[shape |-> "return", val |-> 0]>>
    /\ ret.kind = "InvalidData"

C10_RemoteErrorRecoverable ==
    (op = "execute") =>
        /\ (callRx # <<>> /\ Last(callRx).shape = "error") =>
            /\ Done
            /\ ret = Res("OkErr", "", "", Last(callRx).val)
            /\ QueueLeft = q0 \o EventsOf(callRx)
        /\ prev = "remote error" =>
            /\ callRx # <<>> => CmdsOf(callTx) = <<Envelope(cmd, 0)>>
            /\ (callRx # <<>> /\ IsResponse(Last(callRx))) =>
                (Done /\ ret = Carried(Last(callRx)))

C10_Witness ==
    /\ op = "execute" /\ Done /\ prev = "remote error"
    /\ proto = "qmp"
    /\ q0 = <<1>>
    /\ callRx = <<[shape |-> "return", val |-> 1]>>
    /\ ret = Res("OkOk", "", "", 1)
    /\ event_queue = <<1>>

\* The lines of the call that read_response read: all of them, but for the
\* line Qmp::read_capabilities read.
RespRx ==
    IF op = "read_capabilities" THEN <<>>
    ELSE IF op = "handshake" /\ proto = "qmp" /\ callRx # <<>> THEN Tail(callRx)
    ELSE callRx

\* C11: in the QMP session a Greeting line that read_response reads ends the
\* call with an invalid-data io::Error: it is the last line the call reads, it
\* is not handed back as a response, and the event queue holds the events read
\* before it and nothing else.
C11_GreetingMidSession ==
    proto = "qmp" =>
        \A i \in 1..Len(RespRx) :
            RespRx[i].shape = "greeting" =>
                /\ i = Len(RespRx)
                /\ Done
                /\ ret.t = "Err"
                /\ ret.kind = "InvalidData"
                /\ QueueLeft = q0 \o EventsOf(RespRx)

C11_Witness ==
    /\ proto = "qmp" /\ op = "execute" /\ Done
    /\ callRx = <<[shape |-> "event", val |-> 1], [shape |-> "greeting", val |-> 0]>>
    /\ ret = IoError("InvalidData", "unexpected greeting")
    /\ event_queue = <<1>>

\* C15 as stated: the event queue always equals the sequence of all Event
\* lines read since the last events() call.
C15_AsStated ==
    proto = "qmp" =>
        /\ QueueLeft = q0 \o EventsOf(callRx)
        /\ drained # <<>> => event_queue = <<>>
        /\ \A i \in 2..Len(drained) : drained[i] = <<>>

\* C15 amended: the event queue always equals the sequence of all Event lines
\* that read_response has read since the last events() call, in arrival
\* order: every operation, however it ends, leaves the queue it found
\* followed by the Events its read_response read, and only events() empties
\* it. A line that read_capabilities reads is never queued.
C15_QueueIsEventsRead ==
    proto = "qmp" =>
        /\ QueueLeft = q0 \o EventsOf(RespRx)
        /\ drained # <<>> => event_queue = <<>>
        /\ \A i \in 2..Len(drained) : drained[i] = <<>>

C15_Witness ==
    /\ proto = "qmp" /\ op = "nop" /\ Done
    /\ q0 = <<0>>
    /\ callRx = <<[shape |-> "event", val |-> 1], [shape |-> "garbage", val |-> 0]>>
    /\ ret.t = "Err"
    /\ event_queue = <<0, 1>>

\* The session's first operation has read a greeting through
\* read_capabilities: the session has left the Unauthenticated state.
GreetingRead ==
    /\ op \in {"handshake", "read_capabilities"}
    /\ callRx # <<>>
    /\ callRx[1].shape = "greeting"

\* C12 as stated: on a fresh QMP session no command line is written while no
\* greeting has been read, whichever public operation the caller starts with.
C12_AsStated ==
    (proto = "qmp" /\ prev = "none" /\ ~GreetingRead) => callTx = <<>>

\* C12: Qmp::handshake writes no command before it has read the greeting:
\* whenever a handshake has written anything, the first line it read was a
\* greeting and it was read before the write.
C12_HandshakeReadsGreetingFirst ==
    [][(proto = "qmp" /\ op = "handshake" /\ pc = "write_command"
                      /\ callTx' # callTx) =>
          /\ callRx # <<>>
          /\ callRx[1].shape = "greeting"
          /\ callTx = <<>>
          /\ callRx' = callRx]_vars

C12_Witness ==
    /\ proto = "qmp" /\ op = "handshake" /\ pc = "read_response"
    /\ callRx = <<[shape |-> "greeting", val |-> 1]>>
    /\ callTx = <<Envelope("qmp_capabilities", 0), Newline>>

\* Command lines written minus Response lines read, over the session's
\* first operation or its first two.
InFlight ==
    (IF prev = "unanswered" THEN 1 ELSE 0)
    + (IF lastWrite = "ok" THEN 1 ELSE 0)
    - (IF \E i \in 1..Len(callRx) : IsResponse(callRx[i]) THEN 1 ELSE 0)

\* C13 as stated: at any time the command lines written minus the responses
\* consumed is at most one, under any sequence of public operations.
C13_AsStated ==
    prev \in {"none", "unanswered"} => InFlight <= 1

\* C13: within one call of execute, handshake or nop exactly one command is
\* written and it is written before the call reads any response line; no
\* operation writes more than one command per call.
C13_OneCommandPerCall ==
    /\ Len(CmdsOf(callTx)) <= 1
    /\ (op \in {"execute", "handshake", "nop"} /\ (pc = "read_response" \/ RespRx # <<>>))
          => /\ Len(CmdsOf(callTx)) = 1
             /\ lastWrite \in {"ok", "short"}

C13_Witness ==
    /\ op = "execute" /\ Done /\ ret.t = "OkOk"
    /\ callTx = <<Envelope("stop", 0), Newline>>
    /\ callRx = <<[shape |-> "event", val |-> 0], [shape |-> "return", val |-> 1]>>

\* write_command has returned Ok(()): as the whole call, or as the first half
\* of an execute that has gone on to read_response.
WriteReturnedOk ==
    \/ op = "write_command" /\ Done /\ ret.t = "Ok"
    \/ op \in {"execute", "handshake", "nop"} /\ pc = "read_response"

\* C14: whenever write_command returns success the stream has received the
\* command's envelope followed by exactly one newline byte and all of it has
\* been flushed, also when the writer accepts fewer bytes than it is offered.
C14_EnvelopeNewlineFlushed ==
    WriteReturnedOk =>
        /\ callTx = <<Envelope(cmd, syncId), Newline>>
        /\ flushed = Len(out)

\* What one line alone decodes to as a value of type T.
ParseOf(T, l) ==
    IF l.shape \in ShapesOf(T) THEN Res("Some", l.shape, "", l.val)
    ELSE IF l.shape = "truncated" THEN IoError("UnexpectedEof", "serde")
    ELSE IoError("InvalidData", "serde")

\* A step of a reading operation takes one line from the stream when its
\* read met a line, and none otherwise.
OneLinePerDecode ==
    pc \in {"read_capabilities", "read_response"} =>
        /\ Len(callRx') = Len(callRx) + (IF lastRead' = "line" THEN 1 ELSE 0)
        /\ nlines' = nlines + (IF lastRead' = "line" THEN 1 ELSE 0)

\* C16: after every decode_line the buffer holds the line this call read and
\* nothing else, the result is None exactly when the read met end-of-stream,
\* a line that does not parse gives a decode error, any other line gives its
\* parsed value whatever was read before, and the call consumed one line.
C16_DecodeLine ==
    /\ [](decoded.T # "" =>
            /\ decoded.res.t = "None" <=> lastRead = "eof"
            /\ lastRead = "line" =>
                  /\ buffer = <<Last(callRx)>>
                  /\ decoded.res = ParseOf(decoded.T, Last(callRx))
                  /\ decoded.res.t = "Err" <=> Last(callRx).shape \notin ShapesOf(decoded.T)
            /\ lastRead # "line" => buffer = <<>>)
    /\ [][OneLinePerDecode]_vars

C16_Witness ==
    /\ proto = "qmp" /\ op = "execute" /\ Done
    /\ callRx = <<[shape |-> "event", val |-> 1], [shape |-> "return", val |-> 0]>>
    /\ buffer = <<[shape |-> "return", val |-> 0]>>
    /\ decoded = [T |-> "QmpMessage", res |-> Res("Some", "return", "", 0)]

\* The half h1 is the half h0 after receiving exactly the adapter's last
\* call, and answered it with what the adapter handed back.
Forwarded(h0, h1) ==
    /\ h1.calls = h0.calls + 1
    /\ h1.last = [call |-> called'.call, arg |-> called'.arg, res |-> called'.res]

RoutesToHalves ==
    called'.n = called.n + 1 =>
        /\ called'.call \in {"read", "fill_buf", "consume"} =>
              /\ Forwarded(stream.r, stream'.r)
              /\ stream'.w = stream.w
        /\ called'.call \in {"write", "flush"} =>
              /\ Forwarded(stream.w, stream'.w)
              /\ stream'.r = stream.r

\* C17: every read, fill_buf and consume on the adapter reaches the readable
\* half once and leaves the writable half as it was, every write and flush
\* reaches the writable half once and leaves the readable half as it was,
\* and the caller gets the half's result or error unchanged.
C17_StreamRoutes == [][RoutesToHalves]_vars

C17_Witness ==
    /\ called.n = 3 /\ called.call = "flush"
    /\ called.res = IoError("Transport", "io")
    /\ stream.w.last.res = called.res
    /\ stream.w.pend = 1 /\ stream.w.calls = 2
    /\ stream.r.calls = 1 /\ stream.r.last.res = Res("Ok", "", "", 2)

\* A QMP execute has written its command and every line the peer has sent
\* it since is an Event.
OnlyEventsSoFar ==
    /\ proto = "qmp" /\ op = "execute"
    /\ lastWrite \in {"ok", "short"}
    /\ lastRead \in {"none", "line"}
    /\ \A i \in 1..Len(callRx) : IsEvent(callRx[i])

Awaiting == proto = "qmp" /\ op = "execute" /\ pc = "read_response"

\* C18: a QMP execute that has written its command has not returned while
\* the peer has sent it only Event lines, and it does return once the peer
\* sends a Response, a Greeting or an undecodable line or closes the
\* stream, after the finitely many Event lines that came before.
C18_ExecuteReturns ==
    /\ [](OnlyEventsSoFar => pc = "read_response" /\ ret = NoRet)
    /\ (Awaiting ~> Done)

C18_Witness ==
    /\ proto = "qmp" /\ op = "execute" /\ Done
    /\ callRx = <<[shape |-> "event", val |-> 0], [shape |-> "event", val |-> 1],
                  [shape |-> "greeting", val |-> 0]>>
    /\ ret.t = "Err"

IsOob(e) == e = "oob"

\* C19: for the capability list of every greeting decoded, supports_oob() is
\* true exactly when the peer advertised "oob", and capabilities() is the
\* recognized flags of the list in their order, the others being skipped.
C19_CapabilityIntrospection ==
    (decoded.T = "QapiCapabilities" /\ decoded.res.t = "Some") =>
        LET w == WireCaps(decoded.res.val)
            cs == Vec_QmpCapability(w)
        IN  /\ supports_oob(cs) <=> \E i \in 1..Len(w) : IsOob(w[i])
            /\ capabilities(cs) = SelectSeq(w, IsOob)

\* C20: when the write or the flush of the command fails inside execute, QMP
\* or QGA, execute has returned that I/O error as it is, has read no line
\* from the input, and the event queue is as it was when execute began.
C20_WriteFailureReturned ==
    (op = "execute" /\ lastWrite \in {"fail_ser", "fail_nl", "fail_flush"}) =>
        /\ Done
        /\ ret = IoError("Transport", "io")
        /\ callRx = <<>> /\ lastRead = "none" /\ decoded = NoDecode
        /\ QueueLeft = q0

C20_Witness ==
    /\ proto = "qmp" /\ op = "execute" /\ Done
    /\ lastWrite = "fail_flush"
    /\ callTx = <<Envelope("stop", 0), Newline>>
    /\ ret = IoError("Transport", "io")
    /\ q0 = <<1>> /\ event_queue = <<1>>
    /\ callRx = <<>>

TypeOK ==
    /\ proto \in {"qmp", "qga"}
    /\ pc \in {"idle", "read_capabilities", "write_command", "read_response", "panicked"}
    /\ Len(event_queue) <= MaxLines
    /\ flushed <= Len(out)
    /\ Len(buffer) <= 1

====
